---- MODULE Spec2Model ----
(***************************************************************************)
(* Model of Predictor.process_receipt of the LayoutLMv3 CORD receipt       *)
(* predictors:                                                             *)
(*   src/replicate_deployment/layoutlmv3/predict.py  (external OCR)        *)
(*   src/replicate_deployment/predict.py             (built-in OCR)        *)
(*                                                                         *)
(* A Python str is a sequence of one-character strings, so that            *)
(* str.startswith, str.replace, str.strip and str.join are computed as     *)
(* Python computes them.  A dict is a function whose DOMAIN is its key     *)
(* set.  None is the empty sequence: the code only tests current_entity    *)
(* for truthiness, and never assigns it an empty label.                    *)
(*                                                                         *)
(* The tokenizer and the classifier are external: the (token, label)       *)
(* pairs they deliver are drawn one loop iteration at a time.  The token   *)
(* and label lists are not retained; the result's "tokens" and             *)
(* "predictions" lists are represented by their lengths.                   *)
(***************************************************************************)
EXTENDS Integers, Sequences, FiniteSets, TLC

\* ------------------------------------------------------------- bounds
\* The longest (token, label) sequence the tokenizer/classifier delivers.
MaxLen == 3
\* The longest words / boxes list handed to process_receipt.
MaxWords == 2
\* The longest value list per entity type drawn for the formatter.
MaxVals == 2

\* ------------------------------------------------- program constants
\* tokens[:50], predicted_labels[:50]
TokenLimit == 50

\* ------------------------------------------------------- characters
\* U+0120, the byte-level BPE word-boundary marker.
G == "\\u0120"
SP == " "
NL == "\n"
Whitespace == {" ", "\t", "\n", "\r", "\f"}

\* ------------------------------------------------- Python str methods
RECURSIVE Replace(_, _, _)
\* s.replace(old, new): every non-overlapping occurrence, left to right.
Replace(s, old, new) ==
  IF Len(s) < Len(old) \/ Len(old) = 0 THEN s
  ELSE IF SubSeq(s, 1, Len(old)) = old
       THEN new \o Replace(SubSeq(s, Len(old) + 1, Len(s)), old, new)
       ELSE <<Head(s)>> \o Replace(Tail(s), old, new)

\* s.startswith(p)
StartsWith(s, p) == Len(s) >= Len(p) /\ SubSeq(s, 1, Len(p)) = p

RECURSIVE LStrip(_)
LStrip(s) == IF s # <<>> /\ Head(s) \in Whitespace THEN LStrip(Tail(s)) ELSE s

RECURSIVE RStrip(_)
RStrip(s) ==
  IF s # <<>> /\ s[Len(s)] \in Whitespace THEN RStrip(SubSeq(s, 1, Len(s) - 1)) ELSE s

\* s.strip()
Strip(s) == RStrip(LStrip(s))

RECURSIVE Join(_, _)
\* sep.join(parts)
Join(sep, parts) ==
  IF parts = <<>> THEN <<>>
  ELSE IF Len(parts) = 1 THEN parts[1]
  ELSE parts[1] \o sep \o Join(sep, Tail(parts))

\* ------------------------------------------------------ string literals
B_ == <<"B", "-">>
I_ == <<"I", "-">>
O == <<"O">>
STORE == <<"S", "T", "O", "R", "E">>
DATE == <<"D", "A", "T", "E">>
ITEM == <<"I", "T", "E", "M">>
PRICE == <<"P", "R", "I", "C", "E">>
TOTAL == <<"T", "O", "T", "A", "L">>
TAX == <<"T", "A", "X">>
CLS == <<"[", "C", "L", "S", "]">>
SEP == <<"[", "S", "E", "P", "]">>
PAD == <<"[", "P", "A", "D", "]">>
None == <<>>
EmptyDict == [k \in {} |-> <<>>]

NoTextMsg ==
  <<"N","o"," ","t","e","x","t"," ","p","r","o","v","i","d","e","d",".">>
NoEntitiesMsg ==
  <<"N","o"," ","s","t","r","u","c","t","u","r","e","d"," ",
    "e","n","t","i","t","i","e","s"," ","d","e","t","e","c","t","e","d",".">>
ItemsHeader == <<NL, "#", "#", " ", "I", "t", "e", "m", "s">>
PricesHeader == <<NL, "#", "#", " ", "P", "r", "i", "c", "e", "s">>
StorePrefix == <<"#", " ">>
DatePrefix == <<"D", "a", "t", "e", ":", " ">>
BulletPrefix == <<"-", " ">>
TotalPrefix == <<NL, "#", "#", " ", "T", "o", "t", "a", "l", ":", " ">>

RECURSIVE Str(_)
\* str(n) of a natural number: its decimal digits.
Str(n) ==
  LET digit(d) == <<"0", "1", "2", "3", "4", "5", "6", "7", "8", "9">>[d + 1]
  IN IF n < 10 THEN <<digit(n)>> ELSE Str(n \div 10) \o <<digit(n % 10)>>

\* f"Error: words ({len(words)}) and boxes ({len(boxes)}) count mismatch."
MismatchMsg(nw, nb) ==
  <<"E", "r", "r", "o", "r", ":", " ", "w", "o", "r", "d", "s", " ", "(">>
    \o Str(nw) \o
  <<")", " ", "a", "n", "d", " ", "b", "o", "x", "e", "s", " ", "(">>
    \o Str(nb) \o
  <<")", " ", "c", "o", "u", "n", "t", " ", "m", "i", "s", "m", "a", "t", "c", "h", ".">>

\* ------------------------------------------------------------- inputs
\* What the tokenizer can deliver: the three markers the loop skips, a
\* word-initial piece, a word-internal piece, a piece with an inner marker.
StructuralTokens == {CLS, SEP, PAD}
Tokens == StructuralTokens \cup {<<G, "a">>, <<"b">>, <<"a", G, "b">>}

\* What id2label can deliver: "O", "B-<TYPE>", "I-<TYPE>"; the types
\* include one that itself contains "I-".
Labels ==
  { O,
    B_ \o ITEM, I_ \o ITEM,
    B_ \o TOTAL, I_ \o TOTAL,
    B_ \o TAX,
    B_ \o I_ \o ITEM, I_ \o I_ \o ITEM }

VARIABLES
  pc,               \* position in process_receipt
  words, boxes,     \* the arguments of layoutlmv3 process_receipt
  i,                \* (token, label) pairs consumed by the loop
  token, label,     \* the loop variables
  entities, current_entity, current_text,
  formatted_lines,
  result,           \* what process_receipt returns
  root,             \* the locals of predict.py's process_receipt, same input
  begun             \* history: non-structural "B-" tokens processed so far

vars == <<pc, words, boxes, i, token, label, entities, current_entity,
          current_text, formatted_lines, result, root, begun>>

\* ------------------------------------------------------ the decoder
\* layoutlmv3/predict.py

\* IsStructural with the padding marker forgotten.
IsStructuralNoPad(tok) == tok \in {CLS, SEP}

\* token in ["[CLS]", "[SEP]", "[PAD]"]
IsStructural(tok) == tok \in StructuralTokens

\* current_entity.replace("B-", "").replace("I-", "")
EntityType(ce) == Replace(Replace(ce, B_, <<>>), I_, <<>>)

\* SaveEntity with the list assigned anew instead of appended to.
SaveEntityOverwrites(ents, ce, text) ==
  LET entity_type == EntityType(ce)
      value == Join(<<SP>>, text)
  IN IF entity_type \notin DOMAIN ents
     THEN (entity_type :> <<value>>) @@ ents
     ELSE [ents EXCEPT ![entity_type] = <<value>>]

\* if entity_type not in entities: entities[entity_type] = []
\* entities[entity_type].append(" ".join(current_text))
SaveEntity(ents, ce, text) ==
  LET entity_type == EntityType(ce)
      value == Join(<<SP>>, text)
  IN IF entity_type \notin DOMAIN ents
     THEN (entity_type :> <<value>>) @@ ents
     ELSE [ents EXCEPT ![entity_type] = Append(@, value)]

\* if current_entity: <save>
SaveIfOpen(ents, ce, text) ==
  IF ce # None THEN SaveEntity(ents, ce, text) ELSE ents

\* CleanToken without the strip: the marker's space stays in front.
CleanTokenNoStrip(tok) == Replace(tok, <<G>>, <<SP>>)

\* token.replace("Ġ", " ").strip()
CleanToken(tok) == Strip(Replace(tok, <<G>>, <<SP>>))

\* label.startswith("I-") and current_entity and
\* label.replace("I-", "") == current_entity.replace("B-", "")
Continues(lab, ce) ==
  /\ StartsWith(lab, I_)
  /\ ce # None
  /\ Replace(lab, I_, <<>>) = Replace(ce, B_, <<>>)

\* FormatLines with one heading per STORE value instead of the first only.
FormatLinesEveryStore(ents) ==
  (IF STORE \in DOMAIN ents
   THEN [j \in 1..Len(ents[STORE]) |-> StorePrefix \o ents[STORE][j]]
   ELSE <<>>)
  \o
  (IF DATE \in DOMAIN ents THEN <<DatePrefix \o ents[DATE][1]>> ELSE <<>>)
  \o
  (IF ITEM \in DOMAIN ents
   THEN <<ItemsHeader>>
        \o [j \in 1..Len(ents[ITEM]) |-> BulletPrefix \o ents[ITEM][j]]
   ELSE <<>>)
  \o
  (IF PRICE \in DOMAIN ents
   THEN <<PricesHeader>>
        \o [j \in 1..Len(ents[PRICE]) |-> BulletPrefix \o ents[PRICE][j]]
   ELSE <<>>)
  \o
  (IF TOTAL \in DOMAIN ents THEN <<TotalPrefix \o ents[TOTAL][1]>> ELSE <<>>)

\* The formatted lines, section by section.
FormatLines(ents) ==
  (IF STORE \in DOMAIN ents THEN <<StorePrefix \o ents[STORE][1]>> ELSE <<>>)
  \o
  (IF DATE \in DOMAIN ents THEN <<DatePrefix \o ents[DATE][1]>> ELSE <<>>)
  \o
  (IF ITEM \in DOMAIN ents
   THEN <<ItemsHeader>>
        \o [j \in 1..Len(ents[ITEM]) |-> BulletPrefix \o ents[ITEM][j]]
   ELSE <<>>)
  \o
  (IF PRICE \in DOMAIN ents
   THEN <<PricesHeader>>
        \o [j \in 1..Len(ents[PRICE]) |-> BulletPrefix \o ents[PRICE][j]]
   ELSE <<>>)
  \o
  (IF TOTAL \in DOMAIN ents THEN <<TotalPrefix \o ents[TOTAL][1]>> ELSE <<>>)

\* FormattedText without the fallback message.
FormattedTextAlwaysJoined(lines) == Join(<<NL>>, lines)

\* "\n".join(formatted_lines) if formatted_lines else "No structured ..."
FormattedText(lines) ==
  IF lines # <<>> THEN Join(<<NL>>, lines) ELSE NoEntitiesMsg

\* xs[:limit], as a length
Truncated(n, limit) == IF n < limit THEN n ELSE limit

\* The dict of the two early returns of layoutlmv3 process_receipt.
ErrorResult(text) ==
  [entities |-> EmptyDict, formatted_text |-> text, tokens |-> 0, predictions |-> 0]

\* ------------------------------------------------------ the decoder
\* predict.py: the loop body, the final save and the formatter, on a record
\* of the locals.
RootLocals ==
  [entities |-> EmptyDict, current_entity |-> None, current_text |-> <<>>,
   formatted_lines |-> <<>>, formatted_text |-> <<>>]

\* RootSave with the value list assigned instead of appended to.
RootSaveOverwrites(r) ==
  LET entity_type ==
        Replace(Replace(r.current_entity, B_, <<>>), I_, <<>>)
      value == Join(<<SP>>, r.current_text)
  IN IF entity_type \in DOMAIN r.entities
     THEN [r.entities EXCEPT ![entity_type] = <<value>>]
     ELSE r.entities @@ (entity_type :> <<value>>)

RootSave(r) ==
  LET entity_type ==
        Replace(Replace(r.current_entity, B_, <<>>), I_, <<>>)
      value == Join(<<SP>>, r.current_text)
  IN IF entity_type \in DOMAIN r.entities
     THEN [r.entities EXCEPT ![entity_type] = @ \o <<value>>]
     ELSE r.entities @@ (entity_type :> <<value>>)

RootGroup(r, tok, lab) ==
  IF tok = CLS \/ tok = SEP \/ tok = PAD THEN r
  ELSE IF StartsWith(lab, B_)
  THEN [r EXCEPT
          !.entities = IF r.current_entity # None THEN RootSave(r) ELSE @,
          !.current_entity = lab,
          !.current_text = <<Strip(Replace(tok, <<G>>, <<SP>>))>>]
  ELSE IF /\ StartsWith(lab, I_)
          /\ r.current_entity # None
          /\ Replace(lab, I_, <<>>) = Replace(r.current_entity, B_, <<>>)
  THEN [r EXCEPT
          !.current_text = Append(@, Strip(Replace(tok, <<G>>, <<SP>>)))]
  ELSE [r EXCEPT
          !.entities = IF r.current_entity # None THEN RootSave(r) ELSE @,
          !.current_entity = None,
          !.current_text = <<>>]

RootSaveLast(r) ==
  IF r.current_entity # None THEN [r EXCEPT !.entities = RootSave(r)] ELSE r

RECURSIVE RootBullets(_)
RootBullets(values) ==
  IF values = <<>> THEN <<>>
  ELSE <<BulletPrefix \o Head(values)>> \o RootBullets(Tail(values))

RootFormat(r) ==
  LET e == r.entities
      l1 == IF STORE \in DOMAIN e THEN <<StorePrefix \o Head(e[STORE])>> ELSE <<>>
      l2 == IF DATE \in DOMAIN e THEN Append(l1, DatePrefix \o Head(e[DATE])) ELSE l1
      l3 == IF ITEM \in DOMAIN e
            THEN Append(l2, ItemsHeader) \o RootBullets(e[ITEM]) ELSE l2
      l4 == IF PRICE \in DOMAIN e
            THEN Append(l3, PricesHeader) \o RootBullets(e[PRICE]) ELSE l3
      l5 == IF TOTAL \in DOMAIN e THEN Append(l4, TotalPrefix \o Head(e[TOTAL])) ELSE l4
  IN [r EXCEPT !.formatted_lines = l5]

RootReturn(r) ==
  [r EXCEPT !.formatted_text =
     IF Len(r.formatted_lines) > 0 THEN Join(<<NL>>, r.formatted_lines)
     ELSE NoEntitiesMsg]

\* ------------------------------------------------------------ states
WordLists == {[j \in 1..k |-> "w"] : k \in 0..MaxWords}
BoxLists == {[j \in 1..k |-> <<0, 0, 1, 1>>] : k \in 0..MaxWords}

Init ==
  /\ pc = "start"
  /\ words \in WordLists
  /\ boxes \in BoxLists
  /\ i = 0
  /\ token = <<>>
  /\ label = <<>>
  /\ entities = EmptyDict
  /\ current_entity = None
  /\ current_text = <<>>
  /\ formatted_lines = <<>>
  /\ result = ErrorResult(<<>>)
  /\ root = RootLocals
  /\ begun = 0

\* if not words or not boxes: return {...}
ReturnNoText ==
  /\ pc = "start"
  /\ (Len(words) = 0 \/ Len(boxes) = 0)
  /\ result' = ErrorResult(NoTextMsg)
  /\ pc' = "done"
  /\ UNCHANGED <<begun, words, boxes, i, token, label, entities, current_entity,
                 current_text, formatted_lines, root>>

\* ReturnMismatch with the two counts exchanged in the text.
ReturnMismatchSwapped ==
  /\ pc = "start"
  /\ ~(Len(words) = 0 \/ Len(boxes) = 0)
  /\ Len(words) # Len(boxes)
  /\ result' = ErrorResult(MismatchMsg(Len(boxes), Len(words)))
  /\ pc' = "done"
  /\ UNCHANGED <<begun, words, boxes, i, token, label, entities, current_entity,
                 current_text, formatted_lines, root>>

\* if len(words) != len(boxes): return {...}
ReturnMismatch ==
  /\ pc = "start"
  /\ ~(Len(words) = 0 \/ Len(boxes) = 0)
  /\ Len(words) # Len(boxes)
  /\ result' = ErrorResult(MismatchMsg(Len(words), Len(boxes)))
  /\ pc' = "done"
  /\ UNCHANGED <<begun, words, boxes, i, token, label, entities, current_entity,
                 current_text, formatted_lines, root>>

\* Tokenizer, image processor and classifier ran; the grouping locals are
\* initialised.
Tokenize ==
  /\ pc = "start"
  /\ ~(Len(words) = 0 \/ Len(boxes) = 0)
  /\ Len(words) = Len(boxes)
  /\ pc' = "loop"
  /\ entities' = EmptyDict
  /\ current_entity' = None
  /\ current_text' = <<>>
  /\ root' = RootLocals
  /\ UNCHANGED <<begun, words, boxes, i, token, label, formatted_lines, result>>

\* The next (token, label) pair of zip(tokens, predicted_labels).
NextPair(tok, lab) ==
  /\ pc = "loop"
  /\ i < MaxLen
  /\ i' = i + 1
  /\ token' = tok
  /\ label' = lab
  /\ root' = RootGroup(root, tok, lab)
  /\ begun' = IF tok \notin StructuralTokens /\ StartsWith(lab, B_)
              THEN begun + 1 ELSE begun
  /\ UNCHANGED <<pc, words, boxes, formatted_lines, result>>

\* if token in [...]: continue
SkipStructural ==
  \E tok \in Tokens, lab \in Labels :
    /\ NextPair(tok, lab)
    /\ IsStructural(tok)
    /\ UNCHANGED <<entities, current_entity, current_text>>

\* if label.startswith("B-"):
BeginEntity ==
  \E tok \in Tokens, lab \in Labels :
    /\ NextPair(tok, lab)
    /\ ~IsStructural(tok)
    /\ StartsWith(lab, B_)
    /\ entities' = SaveIfOpen(entities, current_entity, current_text)
    /\ current_entity' = lab
    /\ current_text' = <<CleanToken(tok)>>

\* elif label.startswith("I-") and current_entity and ...:
ContinueEntity ==
  \E tok \in Tokens, lab \in Labels :
    /\ NextPair(tok, lab)
    /\ ~IsStructural(tok)
    /\ ~StartsWith(lab, B_)
    /\ Continues(lab, current_entity)
    /\ current_text' = Append(current_text, CleanToken(tok))
    /\ UNCHANGED <<entities, current_entity>>

\* else:
CloseEntity ==
  \E tok \in Tokens, lab \in Labels :
    /\ NextPair(tok, lab)
    /\ ~IsStructural(tok)
    /\ ~StartsWith(lab, B_)
    /\ ~Continues(lab, current_entity)
    /\ entities' = SaveIfOpen(entities, current_entity, current_text)
    /\ current_entity' = None
    /\ current_text' = <<>>

\* SaveLast without the save: the loop's end drops the open accumulator.
SaveLastForgotten ==
  /\ pc = "loop"
  /\ i >= 1
  /\ root' = RootSaveLast(root)
  /\ pc' = "format"
  /\ UNCHANGED <<begun, words, boxes, i, token, label, entities, current_entity,
                 current_text, formatted_lines, result>>

\* zip is exhausted (the padded sequence is never empty): "Save last entity"
SaveLast ==
  /\ pc = "loop"
  /\ i >= 1
  /\ entities' = SaveIfOpen(entities, current_entity, current_text)
  /\ root' = RootSaveLast(root)
  /\ pc' = "format"
  /\ UNCHANGED <<begun, words, boxes, i, token, label, current_entity, current_text,
                 formatted_lines, result>>

\* "Format output"
Format ==
  /\ pc = "format"
  /\ formatted_lines' = FormatLines(entities)
  /\ root' = RootFormat(root)
  /\ pc' = "return"
  /\ UNCHANGED <<begun, words, boxes, i, token, label, entities, current_entity,
                 current_text, result>>

\* Return with the message chosen by the mapping being empty.
ReturnMessageIfNoEntities ==
  /\ pc = "return"
  /\ result' = [entities |-> entities,
                formatted_text |-> IF DOMAIN entities = {} THEN NoEntitiesMsg
                                   ELSE Join(<<NL>>, formatted_lines),
                tokens |-> Truncated(i, TokenLimit),
                predictions |-> Truncated(i, TokenLimit)]
  /\ root' = RootReturn(root)
  /\ pc' = "done"
  /\ UNCHANGED <<begun, words, boxes, i, token, label, entities,
                 current_entity, current_text, formatted_lines>>

\* return {...}
Return ==
  /\ pc = "return"
  /\ result' = [entities |-> entities,
                formatted_text |-> FormattedText(formatted_lines),
                tokens |-> Truncated(i, TokenLimit),
                predictions |-> Truncated(i, TokenLimit)]
  /\ root' = RootReturn(root)
  /\ pc' = "done"
  /\ UNCHANGED <<begun, words, boxes, i, token, label, entities, current_entity,
                 current_text, formatted_lines>>

Next ==
  \/ ReturnNoText
  \/ ReturnMismatch
  \/ Tokenize
  \/ SkipStructural
  \/ BeginEntity
  \/ ContinueEntity
  \/ CloseEntity
  \/ SaveLast
  \/ Format
  \/ Return

Spec == Init /\ [][Next]_vars

\* ------------------------------------------------- the formatter alone
\* The formatter reads the entity mapping and nothing else.  Every mapping
\* with non-empty value lists is one the grouping pass can deliver, given a
\* long enough sequence; here the mapping is drawn directly.
EntityKeys == {STORE, DATE, ITEM, PRICE, TOTAL, TAX}

\* Value lists of 1..MaxVals values: pairwise different values, or one value
\* repeated.
ValueLists ==
  {[j \in 1..k |-> <<"a">> \o Str(j)] : k \in 1..MaxVals}
    \cup {[j \in 1..k |-> <<"b">>] : k \in 1..MaxVals}

RECURSIVE SumLens(_, _)
SumLens(d, keys) ==
  IF keys = {} THEN 0
  ELSE LET k == CHOOSE x \in keys : TRUE
       IN Len(d[k]) + SumLens(d, keys \ {k})

\* The number of values in a mapping, over all its keys.
ValueCount(d) == SumLens(d, DOMAIN d)

EntityMaps == UNION {[S -> ValueLists] : S \in SUBSET EntityKeys}

InitFormat ==
  /\ pc = "format"
  /\ words = <<"w">>
  /\ boxes = <<<<0, 0, 1, 1>>>>
  /\ i = 1
  /\ token = PAD
  /\ label = O
  /\ entities \in EntityMaps
  /\ current_entity = None
  /\ current_text = <<>>
  /\ formatted_lines = <<>>
  /\ result = ErrorResult(<<>>)
  /\ root = [RootLocals EXCEPT !.entities = entities]
  /\ begun = ValueCount(entities)

NextFormat ==
  \/ Format
  \/ Return

SpecFormat == InitFormat /\ [][NextFormat]_vars

\* ======================================================== properties

\* The <TYPE> of a label "B-<TYPE>" or "I-<TYPE>": what follows the prefix.
TypeOfLabel(lab) == SubSeq(lab, 3, Len(lab))

\* The mapping d with v appended to the list under key k.
Stored(d, k, v) ==
  IF k \in DOMAIN d THEN [d EXCEPT ![k] = Append(@, v)] ELSE (k :> <<v>>) @@ d

\* One iteration of the grouping loop: token', label' is the pair processed.
GroupingStep == pc = "loop" /\ pc' = "loop" /\ i' = i + 1

\* The text of the open accumulator as it is stored.
OpenText == Join(<<SP>>, current_text)

\* C1: on a non-structural token with a "B-" label, the open accumulator (if
\* any) is stored as its joined text under the open entity's type, and the
\* new accumulator is the one of the label, holding the token's cleaned text.
C1_BeginFlushesThenStarts ==
  [][(GroupingStep /\ token' \notin StructuralTokens /\ StartsWith(label', B_))
       => /\ entities' = IF current_entity # None
                         THEN Stored(entities, TypeOfLabel(current_entity), OpenText)
                         ELSE entities
          /\ current_entity' = label'
          /\ current_text' = <<CleanToken(token')>>]_vars

\* An "I-" label of the type of the open accumulator.
MatchesOpen(lab, ce) ==
  StartsWith(lab, I_) /\ ce # None /\ TypeOfLabel(lab) = TypeOfLabel(ce)

\* C2: a non-structural token labelled "I-<TYPE>" while the accumulator of
\* "B-<TYPE>" is open is appended to it; type and mapping stay as they are.
C2_MatchingInsideAppends ==
  [][(GroupingStep /\ token' \notin StructuralTokens
        /\ MatchesOpen(label', current_entity))
       => /\ current_text' = Append(current_text, CleanToken(token'))
          /\ current_entity' = current_entity
          /\ entities' = entities]_vars

\* C3: a non-structural token whose label is neither "B-" nor an "I-" of the
\* open type stores the open accumulator once (if any) and leaves no entity
\* open and no accumulated text.
C3_OtherLabelFlushesAndResets ==
  [][(GroupingStep /\ token' \notin StructuralTokens
        /\ ~StartsWith(label', B_)
        /\ ~MatchesOpen(label', current_entity))
       => /\ current_entity' = None
          /\ current_text' = <<>>
          /\ IF current_entity # None
             THEN \E k \in DOMAIN entities' :
                    entities' = Stored(entities, k, OpenText)
             ELSE entities' = entities]_vars

\* C4: an accumulator still open when the sequence ends is in the returned
\* entities, as the last value of some type.
C4_LastEntityFlushed ==
  (pc = "done" /\ i >= 1 /\ current_entity # None)
    => \E k \in DOMAIN result.entities :
         result.entities[k][Len(result.entities[k])] = OpenText

\* The last entity ran over two tokens up to the final one.
C4_Witness ==
  /\ pc = "done"
  /\ current_entity # None
  /\ Len(current_text) >= 2
  /\ token \notin StructuralTokens
  /\ StartsWith(label, I_)

\* C5: a structural token changes neither the open entity, nor the
\* accumulated text, nor the mapping, whatever its label.
C5_StructuralSkipped ==
  [][(GroupingStep /\ token' \in {CLS, SEP, PAD})
       => UNCHANGED <<entities, current_entity, current_text>>]_vars

\* A structural token with a "B-" label was passed with an entity open.
C5_Witness ==
  /\ pc = "loop"
  /\ token \in {CLS, SEP, PAD}
  /\ StartsWith(label, B_)
  /\ current_entity # None
  /\ current_entity # label

\* C6: whenever the mapping changes, the open accumulator was stored under
\* the string that follows "B-" in the label that opened it.
C6_StoredUnderOpeningType ==
  [][(entities' # entities)
       => entities' =
            Stored(entities, TypeOfLabel(current_entity), OpenText)]_vars

\* The lines a section contributes.
SectionSize(ents, k) ==
  IF k \notin DOMAIN ents THEN 0
  ELSE IF k \in {ITEM, PRICE} THEN 1 + Len(ents[k])
  ELSE 1

\* C7: the formatted lines are, in this order and only for the types
\* present: "# " first STORE, "Date: " first DATE, the Items header and one
\* bullet per ITEM value, the Prices header and one bullet per PRICE value,
\* the Total line with the first TOTAL; the text is these lines joined.
C7_FormattedSections ==
  pc \in {"return", "done"} =>
    LET e == entities
        L == formatted_lines
        atDate == SectionSize(e, STORE)
        atItem == atDate + SectionSize(e, DATE)
        atPrice == atItem + SectionSize(e, ITEM)
        atTotal == atPrice + SectionSize(e, PRICE)
    IN /\ Len(L) = atTotal + SectionSize(e, TOTAL)
       /\ STORE \in DOMAIN e => L[1] = <<"#", " ">> \o e[STORE][1]
       /\ DATE \in DOMAIN e => L[atDate + 1] = DatePrefix \o e[DATE][1]
       /\ ITEM \in DOMAIN e =>
            /\ L[atItem + 1] = ItemsHeader
            /\ \A j \in 1..Len(e[ITEM]) :
                 L[atItem + 1 + j] = <<"-", " ">> \o e[ITEM][j]
       /\ PRICE \in DOMAIN e =>
            /\ L[atPrice + 1] = PricesHeader
            /\ \A j \in 1..Len(e[PRICE]) :
                 L[atPrice + 1 + j] = <<"-", " ">> \o e[PRICE][j]
       /\ TOTAL \in DOMAIN e => L[atTotal + 1] = TotalPrefix \o e[TOTAL][1]
       /\ (pc = "done" /\ Len(L) > 0) =>
            /\ result.formatted_text = Join(<<NL>>, L)
            /\ result.entities = e

\* All five sections, with a second STORE, DATE and TOTAL value and two
\* items and prices.
C7_Witness ==
  /\ pc = "done"
  /\ {STORE, DATE, ITEM, PRICE, TOTAL} \subseteq DOMAIN entities
  /\ \A k \in {STORE, DATE, ITEM, PRICE, TOTAL} :
       Len(entities[k]) >= 2 /\ entities[k][1] # entities[k][2]
  /\ Len(formatted_lines) = 9

\* C8: when the grouping pass ran and left the mapping empty, the formatted
\* text is "No structured entities detected."
C8_NothingDetected ==
  (pc = "done" /\ i >= 1 /\ DOMAIN result.entities = {})
    => result.formatted_text = NoEntitiesMsg

\* The pass ran over a non-structural token and stored nothing.
C8_Witness ==
  /\ pc = "done"
  /\ i >= 2
  /\ token \notin StructuralTokens
  /\ DOMAIN result.entities = {}

\* A result of the shape of the early returns.
ErrorShaped(r) ==
  DOMAIN r.entities = {} /\ r.tokens = 0 /\ r.predictions = 0

\* Tokenizer, classifier and grouping pass did not run.
NothingRan ==
  /\ i = 0
  /\ token = <<>>
  /\ label = <<>>
  /\ DOMAIN entities = {}
  /\ formatted_lines = <<>>
  /\ root = RootLocals

\* C9 as stated: an error-shaped result is returned for empty or mismatched
\* input, and a length mismatch is the only input-shape failure reported.
C9_OnlyMismatchReported ==
  pc = "done" =>
    /\ (Len(words) = 0 \/ Len(boxes) = 0 \/ Len(words) # Len(boxes))
         => ErrorShaped(result) /\ NothingRan
    /\ ErrorShaped(result) => Len(words) # Len(boxes)

\* C9 as amended: two input-shape failures are reported, an empty words or
\* boxes list ("No text provided.") and, for non-empty lists, differing
\* lengths (a text with both counts); both without running anything, and no
\* other input gives an error-shaped result.
C9_ShapeFailures ==
  pc = "done" =>
    LET nw == Len(words)
        nb == Len(boxes)
    IN /\ (nw = 0 \/ nb = 0)
            => /\ ErrorShaped(result)
               /\ result.formatted_text = NoTextMsg
               /\ NothingRan
       /\ (nw # 0 /\ nb # 0 /\ nw # nb)
            => /\ ErrorShaped(result)
               /\ result.formatted_text = MismatchMsg(nw, nb)
               /\ NothingRan
       /\ (nw # 0 /\ nw = nb)
            => ~ErrorShaped(result) /\ i >= 1

\* Both failures have been reported: here the mismatch.
C9_Witness ==
  /\ pc = "done"
  /\ Len(words) = 2
  /\ Len(boxes) = 1
  /\ result.formatted_text = MismatchMsg(2, 1)

\* C10: on the same (token, label) pairs the decoder of predict.py and the
\* decoder of layoutlmv3/predict.py hold the same mapping, open entity and
\* accumulated text at every point, and return the same formatted text.
C10_SameRoutine ==
  (pc \in {"loop", "format", "return"} \/ (pc = "done" /\ i >= 1)) =>
    /\ root.entities = entities
    /\ root.current_entity = current_entity
    /\ root.current_text = current_text
    /\ pc \in {"return", "done"} => root.formatted_lines = formatted_lines
    /\ pc = "done" =>
         /\ root.formatted_text = result.formatted_text
         /\ root.entities = result.entities

\* Both returned a two-type mapping and a formatted text with sections.
C10_Witness ==
  /\ pc = "done"
  /\ i >= 1
  /\ Cardinality(DOMAIN result.entities) >= 2
  /\ Len(formatted_lines) >= 3
  /\ root.formatted_text = result.formatted_text

\* The token with each word-boundary marker turned into a space, position by
\* position.
MarkersAsSpaces(tok) == [j \in 1..Len(tok) |-> IF tok[j] = G THEN SP ELSE tok[j]]

\* The token without a word-boundary marker at its start.
LeadingMarkerStripped(tok) ==
  IF Len(tok) > 0 /\ tok[1] = G THEN SubSeq(tok, 2, Len(tok)) ELSE tok

\* s from its first to its last character that is not whitespace.
Trimmed(s) ==
  LET kept == {j \in 1..Len(s) : s[j] \notin Whitespace}
  IN IF kept = {} THEN <<>>
     ELSE SubSeq(s, CHOOSE j \in kept : \A k \in kept : j <= k,
                    CHOOSE j \in kept : \A k \in kept : j >= k)

\* A loop iteration in which the token contributed a piece: a "B-" start or
\* a continuation of the open accumulator.
TokenContributes ==
  /\ GroupingStep
  /\ token' \notin StructuralTokens
  /\ current_text' # <<>>

\* C11 as stated: the piece a token contributes is the token with a leading
\* word-boundary marker stripped and surrounding whitespace trimmed; a marker
\* elsewhere in the token is left as it is.
C11_LeadingMarkerOnly ==
  [][TokenContributes
       => current_text'[Len(current_text')]
            = Trimmed(LeadingMarkerStripped(token'))]_vars

\* C11 as amended: the piece a token contributes is the token with every
\* word-boundary marker, wherever it stands, replaced by a space and the
\* surrounding whitespace then trimmed; the pieces before it are kept.
C11_EveryMarkerBecomesSpace ==
  [][TokenContributes
       => /\ current_text'[Len(current_text')]
               = Trimmed(MarkersAsSpaces(token'))
          /\ \/ current_text' = <<Trimmed(MarkersAsSpaces(token'))>>
             \/ SubSeq(current_text', 1, Len(current_text') - 1)
                  = current_text]_vars

\* A token with an inner marker continued an open accumulator; the marker
\* is a space in the piece.
C11_Witness ==
  /\ pc = "loop"
  /\ token = <<"a", G, "b">>
  /\ StartsWith(label, I_)
  /\ Len(current_text) = 2
  /\ current_text[2] = <<"a", SP, "b">>

\* s is an initial part of t.
IsPrefix(s, t) == Len(s) <= Len(t) /\ SubSeq(t, 1, Len(s)) = s

\* 1 while the loop holds an open accumulator, 0 otherwise and once the
\* final save is done.
OpenCount == IF pc \in {"start", "loop"} /\ current_entity # None THEN 1 ELSE 0

\* C12: at every step the values in the mapping, plus one if an accumulator
\* is open, are as many as the non-structural "B-" tokens processed so far;
\* the returned mapping holds one value per such token; and the mapping
\* only ever grows by the open accumulator's text, appended at the end of
\* one type's list, so each type's values stand in the order of opening.
C12_OneValuePerBegin ==
  /\ [](/\ ValueCount(entities) + OpenCount = begun
        /\ pc = "done" => ValueCount(result.entities) = begun)
  /\ [][/\ \A k \in DOMAIN entities :
             k \in DOMAIN entities' /\ IsPrefix(entities[k], entities'[k])
        /\ entities' # entities =>
             /\ current_entity # None
             /\ \E k \in DOMAIN entities' :
                  entities' = Stored(entities, k, OpenText)]_vars

\* Three entities, two of one type, were opened and all three returned.
C12_Witness ==
  /\ pc = "done"
  /\ begun = 3
  /\ ValueCount(result.entities) = 3
  /\ Cardinality(DOMAIN result.entities) = 2
  /\ \E k \in DOMAIN result.entities :
       Len(result.entities[k]) = 2 /\ result.entities[k][1] # result.entities[k][2]

\* The entity types the formatter has a section for.
FormattedKeys == {STORE, DATE, ITEM, PRICE, TOTAL}

\* C13: the returned text is "No structured entities detected." exactly
\* when none of STORE, DATE, ITEM, PRICE, TOTAL is a key of the returned
\* mapping, also when the mapping holds entities of other types.
C13_MessageIffNoFormattedKey ==
  pc = "done" =>
    (result.formatted_text = NoEntitiesMsg
       <=> DOMAIN result.entities \cap FormattedKeys = {})

\* A returned mapping with values of another type only, and the message.
C13_Witness ==
  /\ pc = "done"
  /\ DOMAIN result.entities = {TAX}
  /\ Len(result.entities[TAX]) >= 1
  /\ result.formatted_text = NoEntitiesMsg

====
